---- MODULE Spec2Model ----
(***************************************************************************)
(* pgx_fdw: the protocol adapter FdwState<T> (src/src/lib.rs) that         *)
(* implements PostgreSQL's foreign-data-wrapper callbacks on top of a      *)
(* plugin's ForeignData implementation.                                    *)
(*                                                                         *)
(* Conventions                                                             *)
(*   Option<X>      a sequence of length <= 1: <<>> is None, <<x>> Some(x) *)
(*   raw pointer    a natural number, NULL is 0; a non-null *mut           *)
(*                  RowIterator is an index into the heap `iters`          *)
(*   Vec<X>         a sequence                                             *)
(***************************************************************************)
EXTENDS Integers, Sequences, FiniteSets, TLC

(* ------------------------------ bounds --------------------------------- *)

\* scan / modify nodes the host creates in one backend
MaxSessions == 2
\* rows the plugin's table holds when a scripted capability is begun
MaxRows == 2
\* IterateForeignScan calls the host makes on one scan node
MaxIter == 4
\* columns of a tuple descriptor handed to the tuple codec
MaxAtts == 2
\* items of a plugin row handed to the tuple codec
MaxItems == 3
\* entries of a statement's target list before AddForeignUpdateTargets
MaxTargets == 2
\* columns of a row slot handed to the tuple decoder
MaxCols == 3
\* entries of a server's or a foreign table's option list
MaxOpts == 2
\* scan nodes open on the in-memory example while other sessions modify it
MaxScans == 1

(* ------------------------------ values --------------------------------- *)

\* std::ptr::null_mut()
NULL == 0

None == <<>>
Some(x) == <<x>>
IsSome(o) == Len(o) = 1
Unwrap(o) == o[1]

Range(f) == {f[i] : i \in DOMAIN f}

\* all sequences over S of length 0..n
RECURSIVE SeqsUpTo(_, _)
SeqsUpTo(S, n) ==
  IF n = 0 THEN {<<>>}
  ELSE LET shorter == SeqsUpTo(S, n - 1)
       IN  shorter \cup {Append(q, x) : q \in {r \in shorter : Len(r) = n - 1}, x \in S}

(* --------------------------- tuple descriptors ------------------------- *)

\* one pg_attribute of a PgTupleDesc
Attr(name, num, typ) == [name |-> name, attnum |-> num, atttypid |-> typ]

\* create foreign table users (id text, name text, email text)
UsersDesc == <<Attr("id", 1, "text"), Attr("name", 2, "text"), Attr("email", 3, "text")>>

(* ------------------------ IntoDatum / FromDatum ------------------------ *)

\* A plugin item (ForeignData::Item : IntoDatum).  conv = TRUE for an item
\* whose into_datum() is Some(datum), FALSE for one whose into_datum() is
\* None (for instance the None of an Option<String> item).
Item(v) == [conv |-> TRUE, v |-> v]
NoDatumItem == [conv |-> FALSE, v |-> 0]

\* the raw Datum a value converts to
DatumOf(v) == <<"datum", v>>

\* IntoDatum::into_datum : Option<Datum>
into_datum(item) == IF item.conv THEN Some(DatumOf(item.v)) ELSE None

\* Datum::from_datum(datum, is_null, typoid) : Option<Datum>
from_datum(datum, is_null, typoid) == IF is_null THEN None ELSE Some(datum)

(* ------------------------------ row slots ------------------------------ *)

\* 0 as pg_sys::Datum
ZeroDatum == DatumOf(0)

\* TupleTableSlotOps of the host's slot implementations: every one of them
\* provides both callbacks
HostSlotOps == [clear |-> TRUE, getsomeattrs |-> TRUE]

\* A TupleTableSlot.  tuple is the physical row the slot holds (one
\* Option<Datum> per stored attribute); tts_nvalid is the number of leading
\* attributes deformed into tts_values / tts_isnull.
Slot(ops, desc, empty, tuple, nvalid) ==
  [tts_ops |-> ops, tts_tupleDescriptor |-> desc, tts_empty |-> empty,
   tuple |-> tuple, tts_nvalid |-> nvalid]

EmptySlot(ops, desc) == Slot(ops, desc, TRUE, <<>>, 0)

\* the first tts_nvalid entries of the slot's value and null arrays
tts_values(slot) ==
  [i \in 1..slot.tts_nvalid |->
     IF IsSome(slot.tuple[i]) THEN Unwrap(slot.tuple[i]) ELSE ZeroDatum]
tts_isnull(slot) ==
  [i \in 1..slot.tts_nvalid |-> ~IsSome(slot.tuple[i])]

\* the slot's clear callback (tts_ops->clear)
tts_clear(slot) == [slot EXCEPT !.tts_empty = TRUE, !.tuple = <<>>, !.tts_nvalid = 0]

\* the slot's getsomeattrs callback: deform up to natts attributes of the
\* stored tuple
tts_getsomeattrs(slot, natts) ==
  LET have == IF natts < Len(slot.tuple) THEN natts ELSE Len(slot.tuple)
  IN  IF have > slot.tts_nvalid THEN [slot EXCEPT !.tts_nvalid = have] ELSE slot

\* pg_sys::heap_form_tuple(tupdesc, datums, nulls)
heap_form_tuple(tupdesc, datums, nulls) ==
  [i \in 1..Len(tupdesc) |-> IF nulls[i] THEN None ELSE Some(datums[i])]

\* pg_sys::ExecStoreHeapTuple(tuple, slot, false)
ExecStoreHeapTuple(tuple, slot) ==
  [slot EXCEPT !.tts_empty = FALSE, !.tuple = tuple, !.tts_nvalid = 0]

\* FdwState::exec_clear_tuple
exec_clear_tuple(slot) == IF slot.tts_ops.clear THEN tts_clear(slot) ELSE slot

\* FdwState::get_some_attrs
get_some_attrs(slot, natts) ==
  IF slot.tts_ops.getsomeattrs THEN tts_getsomeattrs(slot, natts) ELSE slot

(* --------------------------- encode: store_tuple ----------------------- *)

\* the loop of store_tuple: column i takes the next item of row_iter, if any
RECURSIVE store_loop(_, _, _, _, _)
store_loop(i, attrs_len, row_iter, datums, nulls) ==
  IF i > attrs_len THEN [datums |-> datums, nulls |-> nulls]
  ELSE IF row_iter = <<>> THEN store_loop(i + 1, attrs_len, row_iter, datums, nulls)
  ELSE LET d == into_datum(Head(row_iter))
       IN  IF IsSome(d)
           THEN store_loop(i + 1, attrs_len, Tail(row_iter),
                           [datums EXCEPT ![i] = Unwrap(d)], [nulls EXCEPT ![i] = FALSE])
           ELSE store_loop(i + 1, attrs_len, Tail(row_iter), datums, nulls)

\* a store_tuple that lets only convertible items take a column position
RECURSIVE store_loop_skipping(_, _, _, _, _)
store_loop_skipping(i, attrs_len, row_iter, datums, nulls) ==
  IF i > attrs_len \/ row_iter = <<>> THEN [datums |-> datums, nulls |-> nulls]
  ELSE LET d == into_datum(Head(row_iter))
       IN  IF IsSome(d)
           THEN store_loop_skipping(i + 1, attrs_len, Tail(row_iter),
                           [datums EXCEPT ![i] = Unwrap(d)], [nulls EXCEPT ![i] = FALSE])
           ELSE store_loop_skipping(i, attrs_len, Tail(row_iter), datums, nulls)

store_tuple_skipping(slot, tupdesc, row) ==
  LET attrs_len == Len(tupdesc)
      filled == store_loop_skipping(1, attrs_len, row,
                           [i \in 1..attrs_len |-> ZeroDatum], [i \in 1..attrs_len |-> TRUE])
  IN  ExecStoreHeapTuple(heap_form_tuple(tupdesc, filled.datums, filled.nulls), slot)

\* FdwState::store_tuple
store_tuple(slot, tupdesc, row) ==
  LET attrs_len == Len(tupdesc)
      filled == store_loop(1, attrs_len, row,
                           [i \in 1..attrs_len |-> ZeroDatum], [i \in 1..attrs_len |-> TRUE])
  IN  ExecStoreHeapTuple(heap_form_tuple(tupdesc, filled.datums, filled.nulls), slot)

(* -------------------------- decode: slot_to_tuples --------------------- *)

\* pgx_fdw::Tuple = (String, Option<Datum>, PgOid)
Tuple(name, value, oid) == <<name, value, oid>>

\* a slot_to_tuples that reads the host's arrays up to the descriptor's column
\* count without looking at tts_nvalid; entries that were never deformed hold
\* whatever the arrays held before
slot_to_tuples_unchecked(slot, tupdesc) ==
  LET s1 == IF slot.tts_nvalid = 0 THEN get_some_attrs(slot, Len(tupdesc)) ELSE slot
  IN  [panicked |-> FALSE,
       tuples |-> [i \in 1..Len(tupdesc) |->
                     Tuple(tupdesc[i].name,
                           IF i <= Len(s1.tuple) THEN s1.tuple[i] ELSE Some(ZeroDatum),
                           tupdesc[i].atttypid)],
       slot |-> s1,
       read |-> 1..Len(tupdesc)]

\* FdwState::slot_to_tuples.  datums and nulls are slices of length
\* tts_nvalid (read after the materialization attempt); indexing one past its
\* end panics, and then no Vec<Tuple> is produced.  read is the set of
\* positions of the two arrays the call has read (columns are visited in
\* order, so a panic at column i comes after columns 1..i-1 were read).
slot_to_tuples(slot, tupdesc) ==
  LET s1 == IF slot.tts_nvalid = 0 THEN get_some_attrs(slot, Len(tupdesc)) ELSE slot
      datums == tts_values(s1)
      nulls == tts_isnull(s1)
  IN  IF \E i \in 1..Len(tupdesc) : i > Len(datums)
      THEN [panicked |-> TRUE, tuples |-> <<>>, slot |-> s1, read |-> 1..Len(datums)]
      ELSE [panicked |-> FALSE,
            tuples |-> [i \in 1..Len(tupdesc) |->
                          Tuple(tupdesc[i].name,
                                from_datum(datums[i], nulls[i], tupdesc[i].atttypid),
                                tupdesc[i].atttypid)],
            slot |-> s1,
            read |-> 1..Len(tupdesc)]

(* --------------------- the plugin: ForeignData ------------------------- *)

\* the full row a plugin produces for table row i: one item per column
Row(i) == [j \in 1..Len(UsersDesc) |-> Item(10 * i + j)]

\* What a RowIterator answers to successive next() calls, until it is used
\* up; from then on it answers None.  A fused iterator over k rows answers
\* Some(Row(1)) .. Some(Row(k)); the trait asks only for Iterator, so an
\* iterator may also answer None and later Some again.
FusedScript(k) == [j \in 1..k |-> Some(Row(j))]
Scripts ==
  {FusedScript(k) : k \in 0..MaxRows}
    \cup {FusedScript(k) \o <<None, Some(Row(k + 1))>> : k \in 0..1}

\* ForeignData::begin(&opts): the per-session plugin state.  The plugin
\* modelled here reads, from the data source the foreign table's options name,
\* what its execute will hand out.
begin(data_source) == [rows |-> data_source]

\* ForeignData::execute(&mut self, desc) : RowIterator
execute(state, tupdesc) == state.rows

\* Iterator::next on a RowIterator
next(itr) ==
  IF itr = <<>> THEN [item |-> None, itr |-> <<>>]
  ELSE [item |-> Head(itr), itr |-> Tail(itr)]

\* what a capability method may return: Option<Vec<Tuple>>
MethodResults == {None, Some(<<Tuple("id", Some(DatumOf(99)), "text")>>)}

(* -------------------------- FdwState<T> -------------------------------- *)

\* PgBox::<Self>::alloc0() filled in by Begin
FdwState(state, itr) == [state |-> state, itr |-> itr]

\* the host's per-node opaque slot before Begin has stored anything in it
NoFdwState == FdwState([rows |-> <<>>], NULL)

\* an itr_next that asks the capability for a producer on every call
itr_next_always_execute(fdw_itr, st, tupdesc, heap) ==
  LET n == next(execute(st.state, tupdesc))
  IN  [item |-> n.item, itr_ptr |-> Len(heap) + 1, heap |-> Append(heap, n.itr),
       executed |-> TRUE]

\* an itr_next whose first call drops the producer's first item
itr_next_drops_first(fdw_itr, st, tupdesc, heap) ==
  IF fdw_itr = NULL
  THEN LET n == next(next(execute(st.state, tupdesc)).itr)
       IN  [item |-> n.item, itr_ptr |-> Len(heap) + 1, heap |-> Append(heap, n.itr),
            executed |-> TRUE]
  ELSE LET n == next(heap[fdw_itr])
       IN  [item |-> n.item, itr_ptr |-> fdw_itr,
            heap |-> [heap EXCEPT ![fdw_itr] = n.itr], executed |-> FALSE]

\* an itr_next that keeps one producer for the whole backend
itr_next_shared(fdw_itr, st, tupdesc, heap) ==
  IF heap = <<>>
  THEN LET n == next(execute(st.state, tupdesc))
       IN  [item |-> n.item, itr_ptr |-> 1, heap |-> <<n.itr>>, executed |-> TRUE]
  ELSE LET n == next(heap[1])
       IN  [item |-> n.item, itr_ptr |-> 1,
            heap |-> [heap EXCEPT ![1] = n.itr], executed |-> FALSE]

\* FdwState::itr_next.  heap holds the boxed RowIterators; Box::into_raw of
\* a new box is a fresh non-null pointer.
itr_next(fdw_itr, st, tupdesc, heap) ==
  IF fdw_itr = NULL
  THEN LET n == next(execute(st.state, tupdesc))
       IN  [item |-> n.item, itr_ptr |-> Len(heap) + 1, heap |-> Append(heap, n.itr),
            executed |-> TRUE]
  ELSE LET n == next(heap[fdw_itr])
       IN  [item |-> n.item, itr_ptr |-> fdw_itr,
            heap |-> [heap EXCEPT ![fdw_itr] = n.itr], executed |-> FALSE]

\* an iterate_foreign_scan that does not write the cursor back
iterate_foreign_scan_forgetting(st, scan_tuple_slot, tupdesc, heap) ==
  LET slot == exec_clear_tuple(scan_tuple_slot)
      nx == itr_next(st.itr, st, tupdesc, heap)
  IN  [fdw_state |-> st, heap |-> nx.heap, executed |-> nx.executed,
       slot |-> IF IsSome(nx.item) THEN store_tuple(slot, tupdesc, Unwrap(nx.item))
                ELSE slot]

\* FdwState::iterate_foreign_scan: the node's new fdw_state, the heap of
\* producers, and the slot handed back to the host
iterate_foreign_scan(st, scan_tuple_slot, tupdesc, heap) ==
  LET slot == exec_clear_tuple(scan_tuple_slot)
      nx == itr_next(st.itr, st, tupdesc, heap)
  IN  [fdw_state |-> [st EXCEPT !.itr = nx.itr_ptr], heap |-> nx.heap,
       executed |-> nx.executed,
       slot |-> IF IsSome(nx.item) THEN store_tuple(slot, tupdesc, Unwrap(nx.item))
                ELSE slot]

\* FdwState::begin_foreign_scan: state = T::begin(&opts), itr = null
begin_foreign_scan(capability) == FdwState(capability, NULL)

\* FdwState::begin_foreign_modify: state = T::begin(&opts), itr = null
begin_foreign_modify(capability) == FdwState(capability, NULL)

\* a ReScan that drops the cursor so that the next Iterate starts over
re_scan_resetting(st) == [st EXCEPT !.itr = NULL]

\* FdwState::re_scan_foreign_scan: the body is empty
re_scan_foreign_scan(st) == st

\* FdwState::end_foreign_scan: the body is empty
end_foreign_scan(st) == st

\* FdwState::end_foreign_modify: the body is empty
end_foreign_modify(st) == st

(* ------------------- modify entry points (per call) -------------------- *)

\* one capability method call: the method, the descriptor and the Tuples
MethodCall(method, tupdesc, row, indices) ==
  [method |-> method, desc |-> tupdesc, row |-> row, indices |-> indices]

\* What one ExecForeign* call does: the capability calls it makes, the slot
\* it returns (by name: "slot" or "plan_slot", None when the call panics
\* and so never returns) and the two host slots as the call leaves them.
ExecOutcome(calls, ret, slot, plan_slot) ==
  [calls |-> calls, ret |-> ret, slot |-> slot, plan_slot |-> plan_slot]

\* FdwState::exec_foreign_insert
exec_foreign_insert(st, slot, plan_slot) ==
  LET tupdesc == slot.tts_tupleDescriptor
      tuples == slot_to_tuples(slot, tupdesc)
  IN  IF tuples.panicked THEN ExecOutcome(<<>>, None, tuples.slot, plan_slot)
      ELSE ExecOutcome(<<MethodCall("insert", tupdesc, tuples.tuples, <<>>)>>,
                       Some("slot"), tuples.slot, plan_slot)

\* FdwState::exec_foreign_update
exec_foreign_update(st, slot, plan_slot) ==
  LET tupdesc == slot.tts_tupleDescriptor
      plan_tupdesc == plan_slot.tts_tupleDescriptor
      tuples == slot_to_tuples(slot, tupdesc)
      indices == slot_to_tuples(plan_slot, plan_tupdesc)
  IN  IF tuples.panicked THEN ExecOutcome(<<>>, None, tuples.slot, plan_slot)
      ELSE IF indices.panicked THEN ExecOutcome(<<>>, None, tuples.slot, indices.slot)
      ELSE ExecOutcome(<<MethodCall("update", tupdesc, tuples.tuples, indices.tuples)>>,
                       Some("slot"), tuples.slot, indices.slot)

\* an exec_foreign_delete that takes the identity row from slot
exec_foreign_delete_from_slot(st, slot, plan_slot) ==
  LET tupdesc == slot.tts_tupleDescriptor
      tuples == slot_to_tuples(slot, tupdesc)
  IN  IF tuples.panicked THEN ExecOutcome(<<>>, None, tuples.slot, plan_slot)
      ELSE ExecOutcome(<<MethodCall("delete", tupdesc, <<>>, tuples.tuples)>>,
                       Some("slot"), tuples.slot, plan_slot)

\* FdwState::exec_foreign_delete
exec_foreign_delete(st, slot, plan_slot) ==
  LET tupdesc == plan_slot.tts_tupleDescriptor
      tuples == slot_to_tuples(plan_slot, tupdesc)
  IN  IF tuples.panicked THEN ExecOutcome(<<>>, None, slot, tuples.slot)
      ELSE ExecOutcome(<<MethodCall("delete", tupdesc, <<>>, tuples.tuples)>>,
                       Some("slot"), slot, tuples.slot)

(* ------------------------------ the host ------------------------------- *)

Sessions == 1..MaxSessions

\* the descriptor of a plan slot that carries the identity column only
PlanDesc == <<Attr("id", 1, "text")>>

\* the row slots the host hands to ExecForeign*: a stored row of the table
\* with any number of its leading attributes deformed
RowTuples ==
  <<(<<Some(DatumOf(1)), Some(DatumOf(2)), None>>),
    (<<Some(DatumOf(3)), None, Some(DatumOf(4))>>)>>
RowSlots ==
  {Slot(HostSlotOps, UsersDesc, FALSE, tuple, nv) :
     tuple \in Range(RowTuples), nv \in 0..Len(UsersDesc)}

\* the plan slots the host hands to ExecForeign*
PlanSlots ==
  {Slot(HostSlotOps, PlanDesc, FALSE, <<Some(DatumOf(7))>>, nv) : nv \in 0..Len(PlanDesc)}

\* the descriptor of an UPDATE's plan slot: the new values of all columns of
\* the table, then the identity column AddForeignUpdateTargets appended
UpdatePlanDesc == UsersDesc \o <<Attr("id", Len(UsersDesc) + 1, "text")>>

\* the plan slots the host hands to ExecForeignUpdate
UpdatePlanSlots ==
  {Slot(HostSlotOps, UpdatePlanDesc, FALSE,
        <<Some(DatumOf(5)), Some(DatumOf(6)), None, Some(DatumOf(7))>>, nv) :
     nv \in 0..Len(UpdatePlanDesc)}

VARIABLES
  node,           \* host: where each scan / modify node is in its lifecycle
  fdw_state,      \* node.fdw_state / rinfo.ri_FdwState: the FdwState of each node
  iters,          \* the heap of boxed RowIterators, by pointer
  scan_slot,      \* node.ss.ss_ScanTupleSlot of each node
  returned,       \* per node, the slots IterateForeignScan has returned so far
  execute_calls,  \* per node, how often T::execute has been called
  begin_calls,    \* per node, how often T::begin has been called
  source,         \* plugin: what the foreign table's data source holds
  parsetree,      \* the Query given to AddForeignUpdateTargets
  TABLE,          \* in-memory example: the process-wide store and its lock
  last            \* the last callback: its name, node, inputs and result

vars == <<node, fdw_state, iters, scan_slot, returned, execute_calls, begin_calls,
          source, parsetree, TABLE, last>>

NoQuery == [targetList |-> <<>>, resultRelation |-> 0]

\* lazy_static TABLE: RwLock::new(vec![]), not poisoned
EmptyTable == [rows |-> <<>>, poisoned |-> FALSE]

InitHost ==
  /\ node = [s \in Sessions |-> "unused"]
  /\ fdw_state = [s \in Sessions |-> NoFdwState]
  /\ iters = <<>>
  /\ scan_slot = [s \in Sessions |-> EmptySlot(HostSlotOps, UsersDesc)]
  /\ returned = [s \in Sessions |-> <<>>]
  /\ execute_calls = [s \in Sessions |-> 0]
  /\ begin_calls = [s \in Sessions |-> 0]
  /\ parsetree = NoQuery
  /\ TABLE = EmptyTable

Init ==
  /\ InitHost
  /\ source \in Scripts
  /\ last = [op |-> "none", sess |-> 0]

\* the host creates its nodes one after the other
IsNextNode(s) == node[s] = "unused" /\ \A r \in 1..(s - 1) : node[r] # "unused"

\* the backend process is gone.  The entry points are extern "C" functions,
\* which cannot unwind: a panic inside one (slot_to_tuples indexing past the
\* deformed columns in ExecForeign*, the capability's execute failing in
\* IterateForeignScan, the capability's insert, update or delete failing in
\* ExecForeign*) aborts the process, and no callback runs afterwards.
Aborted ==
  \/ /\ last.op = "IterateForeignScan"
     /\ "failed" \in DOMAIN last
     /\ last.failed
  \/ /\ last.op \in {"ExecForeignInsert", "ExecForeignUpdate", "ExecForeignDelete"}
     /\ last.out.ret = None
  \/ /\ last.op \in {"insert", "update", "delete"}
     /\ last.fault # "none"

BeginForeignScan(s) ==
  /\ ~Aborted
  /\ IsNextNode(s)
  /\ node' = [node EXCEPT ![s] = "scan"]
  /\ fdw_state' = [fdw_state EXCEPT ![s] = begin_foreign_scan(begin(source))]
  /\ begin_calls' = [begin_calls EXCEPT ![s] = @ + 1]
  /\ last' = [op |-> "BeginForeignScan", sess |-> s]
  /\ UNCHANGED <<iters, scan_slot, returned, execute_calls, source, parsetree, TABLE>>

IterateForeignScan(s) ==
  /\ ~Aborted
  /\ node[s] = "scan"
  /\ Len(returned[s]) < MaxIter
  /\ LET r == iterate_foreign_scan(fdw_state[s], scan_slot[s], UsersDesc, iters)
     IN  /\ fdw_state' = [fdw_state EXCEPT ![s] = r.fdw_state]
         /\ iters' = r.heap
         /\ scan_slot' = [scan_slot EXCEPT ![s] = r.slot]
         /\ returned' = [returned EXCEPT ![s] = Append(@, r.slot)]
         /\ execute_calls' = [execute_calls EXCEPT ![s] = @ + (IF r.executed THEN 1 ELSE 0)]
         /\ last' = [op |-> "IterateForeignScan", sess |-> s, ret |-> r.slot]
  /\ UNCHANGED <<node, begin_calls, source, parsetree, TABLE>>

\* a ReScan that builds the session's capability anew
ReScanForeignScan_begins_again(s) ==
  /\ ~Aborted
  /\ node[s] = "scan"
  /\ fdw_state' = [fdw_state EXCEPT ![s] = begin_foreign_scan(begin(source))]
  /\ begin_calls' = [begin_calls EXCEPT ![s] = @ + 1]
  /\ last' = [op |-> "ReScanForeignScan", sess |-> s]
  /\ UNCHANGED <<node, iters, scan_slot, returned, execute_calls, source, parsetree, TABLE>>

ReScanForeignScan(s) ==
  /\ ~Aborted
  /\ node[s] = "scan"
  /\ fdw_state' = [fdw_state EXCEPT ![s] = re_scan_foreign_scan(@)]
  /\ last' = [op |-> "ReScanForeignScan", sess |-> s]
  /\ UNCHANGED <<node, iters, scan_slot, returned, execute_calls, begin_calls, source, parsetree, TABLE>>

EndForeignScan(s) ==
  /\ ~Aborted
  /\ node[s] = "scan"
  /\ node' = [node EXCEPT ![s] = "scan ended"]
  /\ fdw_state' = [fdw_state EXCEPT ![s] = end_foreign_scan(@)]
  /\ last' = [op |-> "EndForeignScan", sess |-> s]
  /\ UNCHANGED <<iters, scan_slot, returned, execute_calls, begin_calls, source, parsetree, TABLE>>

BeginForeignModify(s) ==
  /\ ~Aborted
  /\ IsNextNode(s)
  /\ node' = [node EXCEPT ![s] = "modify"]
  /\ fdw_state' = [fdw_state EXCEPT ![s] = begin_foreign_modify(begin(source))]
  /\ begin_calls' = [begin_calls EXCEPT ![s] = @ + 1]
  /\ last' = [op |-> "BeginForeignModify", sess |-> s]
  /\ UNCHANGED <<iters, scan_slot, returned, execute_calls, source, parsetree, TABLE>>

\* what the host and the plugin saw of one ExecForeign* call: the rows the
\* two slots carried on entry, what the capability method answered, and the
\* call's outcome
ExecRecord(op, s, slot, plan_slot, result, out) ==
  [op |-> op, sess |-> s, slot_row |-> slot.tuple, plan_row |-> plan_slot.tuple,
   slot_nvalid |-> slot.tts_nvalid, plan_nvalid |-> plan_slot.tts_nvalid,
   result |-> result, out |-> out]

\* result is what the capability's insert answers
ExecForeignInsert(s, slot, plan_slot, result) ==
  /\ ~Aborted
  /\ node[s] = "modify"
  /\ last' = ExecRecord("ExecForeignInsert", s, slot, plan_slot, result,
                        exec_foreign_insert(fdw_state[s], slot, plan_slot))
  /\ UNCHANGED <<node, fdw_state, iters, scan_slot, returned, execute_calls, begin_calls,
                 source, parsetree, TABLE>>

\* result is what the capability's update answers
ExecForeignUpdate(s, slot, plan_slot, result) ==
  /\ ~Aborted
  /\ node[s] = "modify"
  /\ last' = ExecRecord("ExecForeignUpdate", s, slot, plan_slot, result,
                        exec_foreign_update(fdw_state[s], slot, plan_slot))
  /\ UNCHANGED <<node, fdw_state, iters, scan_slot, returned, execute_calls, begin_calls,
                 source, parsetree, TABLE>>

\* result is what the capability's delete answers
ExecForeignDelete(s, slot, plan_slot, result) ==
  /\ ~Aborted
  /\ node[s] = "modify"
  /\ last' = ExecRecord("ExecForeignDelete", s, slot, plan_slot, result,
                        exec_foreign_delete(fdw_state[s], slot, plan_slot))
  /\ UNCHANGED <<node, fdw_state, iters, scan_slot, returned, execute_calls, begin_calls,
                 source, parsetree, TABLE>>

EndForeignModify(s) ==
  /\ ~Aborted
  /\ node[s] = "modify"
  /\ node' = [node EXCEPT ![s] = "modify ended"]
  /\ fdw_state' = [fdw_state EXCEPT ![s] = end_foreign_modify(@)]
  /\ last' = [op |-> "EndForeignModify", sess |-> s]
  /\ UNCHANGED <<iters, scan_slot, returned, execute_calls, begin_calls, source, parsetree, TABLE>>

\* slots as the executor hands them over when nothing has read a column of
\* theirs yet
FreshRowSlots == {sl \in RowSlots : sl.tts_nvalid = 0 /\ sl.tuple = RowTuples[1]}
FreshPlanSlots == {sl \in PlanSlots : sl.tts_nvalid = 0}

\* scans and modifications of one backend, interleaved as the host likes
Next ==
  \/ \E s \in Sessions : BeginForeignScan(s)
  \/ \E s \in Sessions : IterateForeignScan(s)
  \/ \E s \in Sessions : ReScanForeignScan(s)
  \/ \E s \in Sessions : EndForeignScan(s)
  \/ \E s \in Sessions : BeginForeignModify(s)
  \/ \E s \in Sessions, slot \in FreshRowSlots, plan_slot \in FreshPlanSlots,
        result \in MethodResults :
       ExecForeignInsert(s, slot, plan_slot, result)
  \/ \E s \in Sessions, slot \in FreshRowSlots, plan_slot \in FreshPlanSlots,
        result \in MethodResults :
       ExecForeignUpdate(s, slot, plan_slot, result)
  \/ \E s \in Sessions, slot \in FreshRowSlots, plan_slot \in FreshPlanSlots,
        result \in MethodResults :
       ExecForeignDelete(s, slot, plan_slot, result)
  \/ \E s \in Sessions : EndForeignModify(s)

Spec == Init /\ [][Next]_vars

\* modify nodes alone, given row and plan slots in every state of
\* materialization
InitModify ==
  /\ InitHost
  /\ source = <<>>
  /\ last = [op |-> "none", sess |-> 0]

NextModify ==
  \/ \E s \in Sessions : BeginForeignModify(s)
  \/ \E s \in Sessions, slot \in RowSlots, plan_slot \in PlanSlots,
        result \in MethodResults :
       ExecForeignInsert(s, slot, plan_slot, result)
  \/ \E s \in Sessions, slot \in RowSlots, plan_slot \in PlanSlots \cup UpdatePlanSlots,
        result \in MethodResults :
       ExecForeignUpdate(s, slot, plan_slot, result)
  \/ \E s \in Sessions, slot \in RowSlots, plan_slot \in PlanSlots,
        result \in MethodResults :
       ExecForeignDelete(s, slot, plan_slot, result)
  \/ \E s \in Sessions : EndForeignModify(s)

SpecModify == InitModify /\ [][NextModify]_vars

(* ============================ scan sessions ============================ *)

ScanNodes == {s \in Sessions : node[s] \in {"scan", "scan ended"}}
ModifyNodes == {s \in Sessions : node[s] \in {"modify", "modify ended"}}
ExecOps == {"ExecForeignInsert", "ExecForeignUpdate", "ExecForeignDelete"}
NoOps == {"ReScanForeignScan", "EndForeignScan", "EndForeignModify"}

\* the rows a producer yields before it first reports exhaustion
RECURSIVE YieldCount(_)
YieldCount(script) ==
  IF script = <<>> \/ ~IsSome(Head(script)) THEN 0 ELSE 1 + YieldCount(Tail(script))

\* the scan slot holding a full plugin row: every column non-null with the
\* datum of the item at its position
SlotFilledWith(row) ==
  Slot(HostSlotOps, UsersDesc, FALSE,
       [j \in 1..Len(UsersDesc) |-> Some(DatumOf(row[j].v))], 0)

\* C1: in a scan session execute is invoked once, by the first
\* IterateForeignScan, and by no later Iterate (nor by ReScan or End),
\* however many Iterate calls follow and whether the producer yields 0, 1 or
\* more rows; a session never sees a second execute.
C1_ExecuteOncePerScan ==
  \A s \in Sessions :
    /\ execute_calls[s] <= 1
    /\ returned[s] # <<>> => execute_calls[s] = 1

\* a scan that was iterated past its producer's exhaustion, MaxIter times
C1_Witness ==
  /\ last.op = "IterateForeignScan"
  /\ Len(returned[last.sess]) >= 3
  /\ returned[last.sess][2].tts_empty
  /\ execute_calls[last.sess] = 1

\* C2: when the producer yields r1..rn and then reports exhaustion, the k-th
\* IterateForeignScan (k <= n) returns the scan slot filled with rk and the
\* (n+1)-th returns the cleared scan slot.
C2_RowsInOrderThenEmpty ==
  \A s \in ScanNodes :
    LET script == fdw_state[s].state.rows
        n == YieldCount(script)
    IN  \A k \in 1..Len(returned[s]) :
          /\ k <= n => returned[s][k] = SlotFilledWith(Unwrap(script[k]))
          /\ k = n + 1 => returned[s][k] = EmptySlot(HostSlotOps, UsersDesc)

\* a scan of two rows whose third Iterate returned the cleared slot
C2_Witness ==
  \E s \in ScanNodes :
    /\ YieldCount(fdw_state[s].state.rows) = 2
    /\ Len(returned[s]) = 3
    /\ returned[s][1] = SlotFilledWith(Row(1))
    /\ returned[s][2] = SlotFilledWith(Row(2))
    /\ returned[s][3].tts_empty

\* C3: once an Iterate of a session has returned the cleared slot (its
\* producer reported exhaustion), every later Iterate of that session returns
\* the cleared slot too, for every producer the trait admits.
C3_ExhaustionIsFinal ==
  \A s \in ScanNodes :
    \A j, k \in 1..Len(returned[s]) :
      (j < k /\ returned[s][j].tts_empty) => returned[s][k].tts_empty

\* C4: a session's cursor is null exactly until its first Iterate, modify
\* sessions never get one, every producer on the heap belongs to exactly one
\* session, and a cursor once set is never cleared or replaced.
C4_CursorShape ==
  /\ \A s \in Sessions :
       /\ fdw_state[s].itr \in 0..Len(iters)
       /\ fdw_state[s].itr = NULL <=> returned[s] = <<>>
       /\ s \in ModifyNodes => fdw_state[s].itr = NULL
  /\ \A s, t \in Sessions :
       (s # t /\ fdw_state[s].itr # NULL) => fdw_state[s].itr # fdw_state[t].itr
  /\ Len(iters) = Cardinality({s \in Sessions : fdw_state[s].itr # NULL})

C4_CursorKept ==
  \A s \in Sessions :
    fdw_state[s].itr # NULL => fdw_state'[s].itr = fdw_state[s].itr

C4_OneProducerPerSession == []C4_CursorShape /\ [][C4_CursorKept]_vars

\* a scan iterated twice next to a modify session that has executed a call
C4_Witness ==
  /\ last.op \in ExecOps
  /\ fdw_state[last.sess].itr = NULL
  /\ \E s \in ScanNodes : Len(returned[s]) >= 2 /\ fdw_state[s].itr # NULL

\* what a session begun with this capability state returns to n Iterate
\* calls when no other session exists
RECURSIVE SoloRun(_, _)
SoloRun(state, n) ==
  IF n = 0
  THEN [fdw_state |-> begin_foreign_scan(state), heap |-> <<>>,
        slot |-> EmptySlot(HostSlotOps, UsersDesc), out |-> <<>>]
  ELSE LET p == SoloRun(state, n - 1)
           r == iterate_foreign_scan(p.fdw_state, p.slot, UsersDesc, p.heap)
       IN  [fdw_state |-> r.fdw_state, heap |-> r.heap, slot |-> r.slot,
            out |-> Append(p.out, r.slot)]

\* C5: a callback of one session leaves every other session's FdwState,
\* producer, scan slot and returned rows as they were, and what a scan has
\* returned and where its cursor stands are what they would be had the session
\* run alone.
C5_OthersUntouched ==
  \A s \in Sessions \ {last'.sess} :
    /\ fdw_state'[s] = fdw_state[s]
    /\ scan_slot'[s] = scan_slot[s]
    /\ returned'[s] = returned[s]
    /\ execute_calls'[s] = execute_calls[s]
    /\ fdw_state[s].itr # NULL => iters'[fdw_state[s].itr] = iters[fdw_state[s].itr]

C5_AsIfAlone ==
  \A s \in ScanNodes :
    LET solo == SoloRun(fdw_state[s].state, Len(returned[s]))
    IN  /\ returned[s] = solo.out
        /\ scan_slot[s] = solo.slot
        /\ fdw_state[s].itr # NULL =>
             iters[fdw_state[s].itr] = solo.heap[solo.fdw_state.itr]

C5_SessionsIndependent == []C5_AsIfAlone /\ [][C5_OthersUntouched]_vars

\* an abandoned scan (one row fetched, never ended) beside a later session's
\* scan that has run further
C5_Witness ==
  /\ node[1] = "scan" /\ Len(returned[1]) = 1 /\ ~returned[1][1].tts_empty
  /\ node[2] = "scan" /\ Len(returned[2]) = 3
  /\ last.op = "IterateForeignScan" /\ last.sess = 2

\* C6: the Iterate that follows a ReScan returns what the first Iterate of a
\* newly begun scan returns.
C6_RescanRestarts ==
  [][(/\ last.op = "ReScanForeignScan"
      /\ last'.op = "IterateForeignScan"
      /\ last'.sess = last.sess)
     => last'.ret = SoloRun(fdw_state[last.sess].state, 1).out[1]]_vars

\* C7: ReScanForeignScan, EndForeignScan and EndForeignModify change nothing
\* of the adapter, the plugin or the host slots: every FdwState, every
\* producer, every scan slot, the call counts and the data source stay as they
\* were.
C7_NoOps ==
  [][last'.op \in NoOps =>
       UNCHANGED <<fdw_state, iters, scan_slot, returned, execute_calls, begin_calls,
                   source, parsetree, TABLE>>]_vars

\* EndForeignScan has run on a scan whose producer still holds rows
C7_Witness ==
  /\ last.op = "EndForeignScan"
  /\ fdw_state[last.sess].itr # NULL
  /\ iters[fdw_state[last.sess].itr] # <<>>

(* ================= scans into a slot that cannot be cleared ============ *)

\* slot ops of an implementation that has no clear callback
ClearlessSlotOps == [clear |-> FALSE, getsomeattrs |-> TRUE]

\* every scan node's scan slot is of such an implementation
InitClearless ==
  /\ node = [s \in Sessions |-> "unused"]
  /\ fdw_state = [s \in Sessions |-> NoFdwState]
  /\ iters = <<>>
  /\ scan_slot = [s \in Sessions |-> EmptySlot(ClearlessSlotOps, UsersDesc)]
  /\ returned = [s \in Sessions |-> <<>>]
  /\ execute_calls = [s \in Sessions |-> 0]
  /\ begin_calls = [s \in Sessions |-> 0]
  /\ parsetree = NoQuery
  /\ TABLE = EmptyTable
  /\ source \in Scripts
  /\ last = [op |-> "none", sess |-> 0]

NextClearless ==
  \/ \E s \in Sessions : BeginForeignScan(s)
  \/ \E s \in Sessions : IterateForeignScan(s)
  \/ \E s \in Sessions : ReScanForeignScan(s)
  \/ \E s \in Sessions : EndForeignScan(s)

SpecClearless == InitClearless /\ [][NextClearless]_vars

\* C14: an IterateForeignScan whose scan slot has no clear operation fails:
\* it hands no slot back to the host, so a scan on such a slot has returned
\* nothing, and in particular no slot that still holds a row when the
\* producer had reported exhaustion.
C14_ClearlessSlotIsFatal ==
  \A s \in ScanNodes :
    ~scan_slot[s].tts_ops.clear =>
      /\ returned[s] = <<>>
      /\ \A k \in 1..Len(returned[s]) :
           (k > Len(fdw_state[s].state.rows) \/ ~IsSome(fdw_state[s].state.rows[k]))
             => returned[s][k].tts_empty

\* what the code does on such a slot: after the only row of the table, the
\* next Iterate hands back the slot with that row still in it
C14_StaleRowReturned ==
  \E s \in ScanNodes :
    /\ fdw_state[s].state.rows = FusedScript(1)
    /\ Len(returned[s]) = 2
    /\ returned[s][2] = returned[s][1]
    /\ ~returned[s][2].tts_empty

(* ======================= the capability's lifetime ===================== *)

BeginOps == {"BeginForeignScan", "BeginForeignModify"}

\* C19: begin has been called once for every node that was begun and never
\* for any other; a step calls begin only if it is a BeginForeignScan or a
\* BeginForeignModify, once, for its own node, whose FdwState then holds the
\* instance begin returned; and no later callback of any kind replaces the
\* instance a begun node holds.
C19_BegunOnce ==
  \A s \in Sessions : begin_calls[s] = IF node[s] = "unused" THEN 0 ELSE 1

C19_OnlyBeginBegins ==
  /\ begin_calls' # begin_calls =>
       /\ last'.op \in BeginOps
       /\ node[last'.sess] = "unused"
       /\ begin_calls' = [begin_calls EXCEPT ![last'.sess] = 1]
       /\ fdw_state'[last'.sess].state = begin(source)
  /\ \A s \in Sessions :
       node[s] # "unused" => fdw_state'[s].state = fdw_state[s].state

C19_BeginOncePerSession == []C19_BegunOnce /\ [][C19_OnlyBeginBegins]_vars

\* a scan begun before and a modification begun after the data source
\* grew, each with its own instance, after planning callbacks, a ReScan and a
\* modification call have run
C19_Witness ==
  /\ node[1] = "scan" /\ node[2] = "modify"
  /\ begin_calls[1] = 1 /\ begin_calls[2] = 1
  /\ fdw_state[1].state # fdw_state[2].state
  /\ Len(returned[1]) >= 1
  /\ parsetree.targetList # <<>>
  /\ last.op \in ExecOps

(* =========================== modify sessions =========================== *)

\* the capability method each entry point dispatches to
MethodOf(op) ==
  CASE op = "ExecForeignInsert" -> "insert"
    [] op = "ExecForeignUpdate" -> "update"
    [] op = "ExecForeignDelete" -> "delete"

\* C9: every ExecForeignInsert / Update / Delete call calls its capability
\* method exactly once and returns the slot it was given, carrying the row it
\* carried on entry.
C9_ExecCallsOnceReturnsSlot ==
  last.op \in ExecOps =>
    /\ Len(last.out.calls) = 1
    /\ last.out.calls[1].method = MethodOf(last.op)
    /\ last.out.ret = Some("slot")
    /\ last.out.slot.tuple = last.slot_row

\* the Tuples of a row of the given descriptor: one per column, in column
\* order, with the column's name, value (None for NULL) and type
DecodeOf(tupdesc, row) ==
  [i \in 1..Len(tupdesc) |->
     Tuple(tupdesc[i].name,
           IF i <= Len(row) /\ IsSome(row[i]) THEN Some(Unwrap(row[i])) ELSE None,
           tupdesc[i].atttypid)]

\* a slot slot_to_tuples can decode: nothing or everything of it is deformed
Decodable(nvalid, tupdesc) == nvalid = 0 \/ nvalid = Len(tupdesc)

\* C20: the capability call an ExecForeign* call makes carries, for Insert,
\* the decode of slot under slot's descriptor; for Update, that decode as the
\* new row and the decode of plan_slot under plan_slot's descriptor, all its
\* columns in order, as the identity row; for Delete, the decode of plan_slot
\* as the identity row, with slot left as it was given.  The call is made
\* whenever the slots the entry point decodes can be decoded.
C20_SlotRouting ==
  last.op \in ExecOps =>
    LET desc == last.out.slot.tts_tupleDescriptor
        plan_desc == last.out.plan_slot.tts_tupleDescriptor
        new_row == DecodeOf(desc, last.slot_row)
        identity == DecodeOf(plan_desc, last.plan_row)
        slot_ok == Decodable(last.slot_nvalid, desc)
        plan_ok == Decodable(last.plan_nvalid, plan_desc)
        calls == last.out.calls
    IN  /\ Len(calls) <= 1
        /\ last.op = "ExecForeignInsert" =>
             /\ slot_ok => Len(calls) = 1
             /\ calls # <<>> => calls[1] = MethodCall("insert", desc, new_row, <<>>)
        /\ last.op = "ExecForeignUpdate" =>
             /\ (slot_ok /\ plan_ok) => Len(calls) = 1
             /\ calls # <<>> => calls[1] = MethodCall("update", desc, new_row, identity)
        /\ last.op = "ExecForeignDelete" =>
             /\ plan_ok => Len(calls) = 1
             /\ calls # <<>> => calls[1] = MethodCall("delete", plan_desc, <<>>, identity)
             /\ last.out.slot.tts_nvalid = last.slot_nvalid

\* an update given a plan slot of four columns: the identity row has all
\* four, the appended identity column last
C20_Witness ==
  /\ last.op = "ExecForeignUpdate"
  /\ Len(last.plan_row) = Len(UpdatePlanDesc)
  /\ Len(last.out.calls) = 1
  /\ Len(last.out.calls[1].indices) = Len(UpdatePlanDesc)
  /\ last.out.calls[1].indices[Len(UpdatePlanDesc)] = Tuple("id", Some(DatumOf(7)), "text")
  /\ Len(last.out.calls[1].row) = Len(UsersDesc)

\* a delete given a row slot of which one column is deformed: the call is
\* made and the row slot is as it was
C20_WitnessDelete ==
  /\ last.op = "ExecForeignDelete"
  /\ last.slot_nvalid = 1
  /\ Len(last.out.calls) = 1
  /\ last.out.slot.tts_nvalid = 1

(* ========================= the tuple codec alone ======================= *)

\* column names of the descriptors handed to the codec
AttNames == <<"id", "name", "email", "phone", "city">>

\* a descriptor of n text columns
CodecDesc(n) == [i \in 1..n |-> Attr(AttNames[i], i, "text")]

\* the items a plugin row is made of: two that convert, one that does not
CodecItems == {Item(1), Item(2), NoDatumItem}

\* plugin rows shorter than, as long as and longer than the descriptors
CodecRows == SeqsUpTo(CodecItems, MaxItems)

InitCodec ==
  /\ InitHost
  /\ source = <<>>
  /\ last = [op |-> "none", sess |-> 0]

\* store_tuple applied to an empty destination slot
StoreTuple(tupdesc, row) ==
  /\ last' = [op |-> "store_tuple", sess |-> 0, tupdesc |-> tupdesc, row |-> row,
              slot |-> store_tuple(EmptySlot(HostSlotOps, tupdesc), tupdesc, row)]
  /\ UNCHANGED <<node, fdw_state, iters, scan_slot, returned, execute_calls, begin_calls,
                 source, parsetree, TABLE>>

NextCodec ==
  \E n \in 0..MaxAtts, row \in CodecRows : StoreTuple(CodecDesc(n), row)

SpecCodec == InitCodec /\ [][NextCodec]_vars

\* C10: store_tuple leaves a row of n columns in the slot; column i is
\* non-null, with the datum of item i, exactly when the row has an item i and
\* that item converts; items are matched to columns by position and items past
\* the n-th play no part.
C10_StoreTupleByPosition ==
  last.op = "store_tuple" =>
    LET n == Len(last.tupdesc)
        m == Len(last.row)
        stored == last.slot.tuple
    IN  /\ ~last.slot.tts_empty
        /\ Len(stored) = n
        /\ \A i \in 1..n :
             /\ IsSome(stored[i]) <=> (i <= m /\ last.row[i].conv)
             /\ IsSome(stored[i]) => Unwrap(stored[i]) = DatumOf(last.row[i].v)

\* a row of three items stored into two columns, its first item not
\* convertible: column 1 is null, column 2 holds item 2, item 3 is dropped
C10_Witness ==
  /\ last.op = "store_tuple"
  /\ Len(last.tupdesc) = 2
  /\ last.row = <<NoDatumItem, Item(1), Item(2)>>
  /\ last.slot.tuple = <<None, Some(DatumOf(1))>>

(* ========================= the tuple decoder alone ===================== *)

\* slot ops of an implementation that has no getsomeattrs callback
NoGetSomeAttrsOps == [clear |-> TRUE, getsomeattrs |-> FALSE]

\* what a stored attribute may hold: NULL or a value
StoredValues == {None, Some(DatumOf(1))}

\* the physical rows a slot of n columns may hold: a row written before
\* columns were added to the table stores fewer attributes than n
RECURSIVE StoredRows(_)
StoredRows(n) ==
  IF n = 0 THEN {<<>>}
  ELSE StoredRows(n - 1)
         \cup {Append(t, v) : t \in {r \in StoredRows(n - 1) : Len(r) = n - 1},
                              v \in StoredValues}

\* row slots of 0..MaxCols columns with any number of leading attributes
\* deformed, with and without a materialization hook
DecodeSlots ==
  UNION {UNION {{Slot(ops, CodecDesc(n), FALSE, tuple, nv) :
                   nv \in 0..Len(tuple), ops \in {HostSlotOps, NoGetSomeAttrsOps}} :
                tuple \in StoredRows(n)} :
         n \in 0..MaxCols}

InitDecode ==
  /\ InitHost
  /\ source = <<>>
  /\ last = [op |-> "none", sess |-> 0]

\* slot_to_tuples applied to a slot and its own descriptor, as every caller
\* does
SlotToTuples(slot) ==
  /\ last' = [op |-> "slot_to_tuples", sess |-> 0, slot |-> slot,
              out |-> slot_to_tuples(slot, slot.tts_tupleDescriptor)]
  /\ UNCHANGED <<node, fdw_state, iters, scan_slot, returned, execute_calls, begin_calls,
                 source, parsetree, TABLE>>

NextDecode == \E slot \in DecodeSlots : SlotToTuples(slot)

SpecDecode == InitDecode /\ [][NextDecode]_vars

\* C11: for a row slot of n columns that holds a row of n attributes, with
\* any number m of them deformed (m = 0, 0 < m < n, m = n), slot_to_tuples
\* returns n Tuples, the i-th with the name, type and value of column i.
C11_DecodeAllColumns ==
  (/\ last.op = "slot_to_tuples"
   /\ last.slot.tts_ops.getsomeattrs
   /\ Len(last.slot.tuple) = Len(last.slot.tts_tupleDescriptor)) =>
    /\ ~last.out.panicked
    /\ last.out.tuples = DecodeOf(last.slot.tts_tupleDescriptor, last.slot.tuple)

\* C12: slot_to_tuples reads positions of the value and null arrays only
\* below the slot's tts_nvalid as it is after the materialization attempt,
\* for every slot, with or without a materialization hook and whether or not
\* the stored row has as many attributes as the descriptor has columns.
C12_ReadsWithinNvalid ==
  last.op = "slot_to_tuples" =>
    /\ \A i \in last.out.read : i <= last.out.slot.tts_nvalid
    /\ ~last.out.panicked =>
         /\ Len(last.out.tuples) <= last.out.slot.tts_nvalid
         /\ \A i \in 1..Len(last.out.tuples) :
              last.out.tuples[i][2] = last.slot.tuple[i]

\* decode of a slot of three columns without a materialization hook and
\* with one attribute deformed: position 1 was read, positions 2 and 3 never
C12_Witness ==
  /\ last.op = "slot_to_tuples"
  /\ ~last.slot.tts_ops.getsomeattrs
  /\ Len(last.slot.tts_tupleDescriptor) = 3
  /\ last.out.slot.tts_nvalid = 1
  /\ last.out.read = {1}
  /\ last.out.panicked

(* ========================= the option catalog reader =================== *)

\* a C string of the catalog: its bytes are valid UTF-8 or they are not
CString(text, utf8) == [text |-> text, utf8 |-> utf8]

\* CStr::from_ptr(p).to_str() : Result<&str, Utf8Error>, Ok as Some
to_str(cstr) == IF cstr.utf8 THEN Some(cstr.text) ELSE None

\* a pg_sys::DefElem: defname and the string Value its arg points to
DefElem(defname, str) == [defname |-> defname, arg |-> str]

\* FdwOptions::elem_to_tuple: the (key, value) pair, or error!
elem_to_tuple(elem) ==
  LET k == to_str(elem.defname)
      v == to_str(elem.arg)
  IN  IF IsSome(k) /\ IsSome(v)
      THEN [error |-> FALSE, kv |-> <<Unwrap(k), Unwrap(v)>>]
      ELSE [error |-> TRUE, kv |-> <<>>]

\* HashMap<String, String> as the set of its (key, value) entries
HashMapNew == {}
HashMapInsert(map, k, v) == {e \in map : e[1] # k} \cup {<<k, v>>}

\* a collect that keeps the first value given for a key
RECURSIVE collect_first_wins(_, _)
collect_first_wins(elems, map) ==
  IF elems = <<>> THEN [error |-> FALSE, map |-> map]
  ELSE LET t == elem_to_tuple(Head(elems))
       IN  IF t.error THEN [error |-> TRUE, map |-> HashMapNew]
           ELSE IF \E e \in map : e[1] = t.kv[1]
           THEN collect_first_wins(Tail(elems), map)
           ELSE collect_first_wins(Tail(elems), HashMapInsert(map, t.kv[1], t.kv[2]))

from_pg_list_first_wins(opts) ==
  IF ~IsSome(opts) THEN [error |-> FALSE, map |-> HashMapNew]
  ELSE collect_first_wins(Unwrap(opts), HashMapNew)

\* iter_ptr().map(elem_to_tuple).collect::<HashMap>(): entries are inserted
\* in list order; an error! in elem_to_tuple ends the call
RECURSIVE collect(_, _)
collect(elems, map) ==
  IF elems = <<>> THEN [error |-> FALSE, map |-> map]
  ELSE LET t == elem_to_tuple(Head(elems))
       IN  IF t.error THEN [error |-> TRUE, map |-> HashMapNew]
           ELSE collect(Tail(elems), HashMapInsert(map, t.kv[1], t.kv[2]))

\* FdwOptions::from_pg_list; opts is None for a null *mut List
from_pg_list(opts) ==
  IF ~IsSome(opts) THEN [error |-> FALSE, map |-> HashMapNew]
  ELSE collect(Unwrap(opts), HashMapNew)

\* FdwOptions::from_relation: server.options is read first, then
\* table.options; options is None when an error! ended the call
from_relation(relation) ==
  LET server_opts == from_pg_list(relation.server_options)
      table_opts == from_pg_list(relation.table_options)
  IN  IF server_opts.error \/ table_opts.error
      THEN [error |-> TRUE, options |-> None]
      ELSE [error |-> FALSE,
            options |-> Some([server_opts |-> server_opts.map,
                              table_opts |-> table_opts.map,
                              table_name |-> relation.name,
                              table_namespace |-> relation.namespace])]

\* option entries: the two options of the example's foreign table, a second
\* value for the first of them, an entry whose key and one whose value is not
\* UTF-8
OptionElems ==
  {DefElem(CString("table_option", TRUE), CString("1", TRUE)),
   DefElem(CString("table_option", TRUE), CString("2", TRUE)),
   DefElem(CString("table_option2", TRUE), CString("2", TRUE)),
   DefElem(CString("?", FALSE), CString("1", TRUE)),
   DefElem(CString("table_option", TRUE), CString("?", FALSE))}

\* an option list of the catalog: NIL (a null pointer) or a list of entries
OptionLists == {None} \cup {Some(l) : l \in SeqsUpTo(OptionElems, MaxOpts)}

Relations ==
  {[name |-> "users", namespace |-> "public", server_options |-> l1, table_options |-> l2] :
     l1 \in OptionLists, l2 \in OptionLists}

InitOptions ==
  /\ InitHost
  /\ source = <<>>
  /\ last = [op |-> "none", sess |-> 0]

\* a Begin callback or AddForeignUpdateTargets reads the relation's options
FromRelation(relation) ==
  /\ last.op = "none"
  /\ last' = [op |-> "from_relation", sess |-> 0, relation |-> relation,
              out |-> from_relation(relation)]
  /\ UNCHANGED <<node, fdw_state, iters, scan_slot, returned, execute_calls, begin_calls,
                 source, parsetree, TABLE>>

NextOptions == \E relation \in Relations : FromRelation(relation)

SpecOptions == InitOptions /\ [][NextOptions]_vars

\* the entries of an option list
Entries(opts) == IF IsSome(opts) THEN Unwrap(opts) ELSE <<>>

\* whether every key and value of the list is text
AllText(opts) ==
  \A i \in 1..Len(Entries(opts)) : Entries(opts)[i].defname.utf8 /\ Entries(opts)[i].arg.utf8

\* the key/value pairs of the list, a duplicated key with the value of its
\* last occurrence
LastWins(opts) ==
  LET l == Entries(opts)
  IN  {<<l[i].defname.text, l[i].arg.text>> :
         i \in {j \in 1..Len(l) : \A k \in (j + 1)..Len(l) : l[k].defname.text # l[j].defname.text}}

\* C13: from_relation yields server_opts and table_opts holding the pairs of
\* the server's and the table's option list, the last occurrence of a
\* duplicated key winning; a null list yields an empty mapping and no error; a
\* key or value that is not text ends the call in an error with no Options
\* value.
C13_OptionsLastWins ==
  last.op = "from_relation" =>
    LET l1 == last.relation.server_options
        l2 == last.relation.table_options
    IN  IF AllText(l1) /\ AllText(l2)
        THEN /\ ~last.out.error
             /\ IsSome(last.out.options)
             /\ Unwrap(last.out.options).server_opts = LastWins(l1)
             /\ Unwrap(last.out.options).table_opts = LastWins(l2)
             /\ ~IsSome(l1) => Unwrap(last.out.options).server_opts = {}
             /\ ~IsSome(l2) => Unwrap(last.out.options).table_opts = {}
        ELSE last.out.error /\ ~IsSome(last.out.options)

\* a null server list beside a table list that gives table_option twice
C13_Witness ==
  /\ last.op = "from_relation"
  /\ last.relation.server_options = None
  /\ last.relation.table_options =
       Some(<<DefElem(CString("table_option", TRUE), CString("1", TRUE)),
              DefElem(CString("table_option", TRUE), CString("2", TRUE))>>)
  /\ ~last.out.error
  /\ Unwrap(last.out.options).server_opts = {}
  /\ Unwrap(last.out.options).table_opts = {<<"table_option", "2">>}

\* a table list whose second entry has a value that is not text
C13_WitnessError ==
  /\ last.op = "from_relation"
  /\ last.relation.table_options =
       Some(<<DefElem(CString("table_option2", TRUE), CString("2", TRUE)),
              DefElem(CString("table_option", TRUE), CString("?", FALSE))>>)
  /\ last.out.error

(* ===================== the in-memory example: InMemTable =============== *)

\* struct User { id, name, email : String }
User(id, name, email) == [id |-> id, name |-> name, email |-> email]

\* User::default(): every field the empty string
UserDefault == User("", "", "")

\* String::from_datum(datum, is_null, typoid) : Option<String>
String_from_datum(datum, is_null, typoid) == IF is_null THEN None ELSE Some(datum[2])

\* into_value::<String>(datum, typoid) : Option<String>
into_value(datum, typoid) ==
  IF IsSome(datum) THEN String_from_datum(Unwrap(datum), FALSE, typoid) ELSE None

\* User::from_tuples: the fold over the Tuples.  fault is "unwrap" when
\* into_value(..).unwrap() met a None, "error" when the name is none of the
\* three and error! was raised; either ends the call with no User.
RECURSIVE from_tuples_fold(_, _)
from_tuples_fold(tuples, t) ==
  IF tuples = <<>> THEN [fault |-> "none", row |-> t]
  ELSE LET name == Head(tuples)[1]
           value == into_value(Head(tuples)[2], Head(tuples)[3])
       IN  IF name \notin {"id", "name", "email"} THEN [fault |-> "error", row |-> t]
           ELSE IF ~IsSome(value) THEN [fault |-> "unwrap", row |-> t]
           ELSE from_tuples_fold(Tail(tuples), [t EXCEPT ![name] = Unwrap(value)])

from_tuples(tuples) == from_tuples_fold(tuples, UserDefault)

\* User::merge
merge(self, other) ==
  [id |-> IF other.id # "" THEN other.id ELSE self.id,
   name |-> IF other.name # "" THEN other.name ELSE self.name,
   email |-> IF other.email # "" THEN other.email ELSE self.email]

\* What a capability method call leaves behind: fault is "none" when the
\* call returned (ret is its return value), otherwise what ended it:
\* "unwrap" / "error" as in from_tuples, "poisoned" when TABLE.write().unwrap()
\* met a poisoned lock.  A call that is ended while it holds the write guard
\* leaves the lock poisoned.
MethodOutcome(fault, table) == [fault |-> fault, ret |-> None, table |-> table]

\* InMemTable::insert
InMemTable_insert(table, tuple) ==
  LET row == from_tuples(tuple)
  IN  IF row.fault # "none" THEN MethodOutcome(row.fault, table)
      ELSE IF table.poisoned THEN MethodOutcome("poisoned", table)
      ELSE MethodOutcome("none", [table EXCEPT !.rows = Append(@, row.row)])

\* InMemTable::update
InMemTable_update(table, tuples, indices) ==
  IF indices = <<>> THEN MethodOutcome("none", table)
  ELSE LET name == indices[1][1]
           key == into_value(indices[1][2], indices[1][3])
           new_row == from_tuples(tuples)
       IN  IF name # "id" THEN MethodOutcome("error", table)
           ELSE IF table.poisoned THEN MethodOutcome("poisoned", table)
           ELSE IF new_row.fault # "none"
           THEN MethodOutcome(new_row.fault, [table EXCEPT !.poisoned = TRUE])
           ELSE IF table.rows # <<>> /\ ~IsSome(key)
           THEN MethodOutcome("unwrap", [table EXCEPT !.poisoned = TRUE])
           ELSE MethodOutcome("none",
                  [table EXCEPT !.rows =
                     [p \in 1..Len(@) |->
                        IF @[p].id = Unwrap(key) THEN merge(@[p], new_row.row) ELSE @[p]]])

\* a delete that removes only the first row that matches
InMemTable_delete_first_match(table, tuples) ==
  IF tuples = <<>> THEN MethodOutcome("none", table)
  ELSE LET name == tuples[1][1]
           key == into_value(tuples[1][2], tuples[1][3])
           hits == {p \in 1..Len(table.rows) : IsSome(key) /\ table.rows[p].id = Unwrap(key)}
       IN  IF name # "id" THEN MethodOutcome("error", table)
           ELSE IF table.poisoned THEN MethodOutcome("poisoned", table)
           ELSE IF table.rows # <<>> /\ ~IsSome(key)
           THEN MethodOutcome("unwrap", [rows |-> <<>>, poisoned |-> TRUE])
           ELSE IF hits = {} THEN MethodOutcome("none", table)
           ELSE LET first == CHOOSE p \in hits : \A q \in hits : p <= q
                IN  MethodOutcome("none",
                      [table EXCEPT !.rows =
                         SubSeq(@, 1, first - 1) \o SubSeq(@, first + 1, Len(@))])

\* InMemTable::delete.  The rows are moved out of the store
\* (std::mem::replace(&mut *rows, vec![])) before they are filtered, so a
\* predicate that panics leaves the store empty.
InMemTable_delete(table, tuples) ==
  IF tuples = <<>> THEN MethodOutcome("none", table)
  ELSE LET name == tuples[1][1]
           key == into_value(tuples[1][2], tuples[1][3])
           predicate(r) == r.id = Unwrap(key)
       IN  IF name # "id" THEN MethodOutcome("error", table)
           ELSE IF table.poisoned THEN MethodOutcome("poisoned", table)
           ELSE IF table.rows # <<>> /\ ~IsSome(key)
           THEN MethodOutcome("unwrap", [rows |-> <<>>, poisoned |-> TRUE])
           ELSE MethodOutcome("none",
                  [table EXCEPT !.rows = SelectSeq(@, LAMBDA r : ~predicate(r))])

\* a text Tuple: a value, or NULL
TextTuple(name, value) == Tuple(name, Some(DatumOf(value)), "text")
NullTuple(name) == Tuple(name, None, "text")

\* rows the store may hold; two of them share an id
StoredUsers == {User("1", "A", "a@x"), User("2", "B", "b@x"), User("1", "C", "")}

\* the store when a call starts
Tables == {[rows |-> rows, poisoned |-> FALSE] : rows \in SeqsUpTo(StoredUsers, MaxRows)}

\* rows handed to insert and, as the new row, to update
NewRowTuples ==
  {<<>>,
   <<TextTuple("id", "3"), NullTuple("name")>>,
   <<TextTuple("id", "3"), TextTuple("name", "N"), TextTuple("email", "")>>,
   <<TextTuple("name", "B")>>,
   <<TextTuple("id", "2"), TextTuple("name", "N"), TextTuple("email", "")>>,
   <<TextTuple("id", "9"), TextTuple("name", "N"), TextTuple("email", "")>>,
   <<TextTuple("name", "N"), TextTuple("phone", "5")>>}

\* identity rows handed to update and delete.  The last two have the layout
\* of an UPDATE's plan slot: the new values of all columns followed by the
\* identity column that AddForeignUpdateTargets appended, which carries the
\* row's id as the scan read it.
IdentityTuples ==
  {<<>>,
   <<TextTuple("id", "1")>>,
   <<TextTuple("id", "2")>>,
   <<NullTuple("id")>>,
   <<TextTuple("ctid", "1")>>,
   <<TextTuple("id", "1"), TextTuple("phone", "5")>>,
   <<TextTuple("id", "2"), TextTuple("name", "N"), TextTuple("email", ""), TextTuple("id", "2")>>,
   <<TextTuple("id", "9"), TextTuple("name", "N"), TextTuple("email", ""), TextTuple("id", "2")>>}

InitInMem ==
  /\ node = [s \in Sessions |-> "unused"]
  /\ fdw_state = [s \in Sessions |-> NoFdwState]
  /\ iters = <<>>
  /\ scan_slot = [s \in Sessions |-> EmptySlot(HostSlotOps, UsersDesc)]
  /\ returned = [s \in Sessions |-> <<>>]
  /\ execute_calls = [s \in Sessions |-> 0]
  /\ begin_calls = [s \in Sessions |-> 0]
  /\ parsetree = NoQuery
  /\ source = <<>>
  /\ TABLE \in Tables
  /\ last = [op |-> "none", sess |-> 0]

\* what the plugin saw of one method call: the store on entry, the
\* arguments, and how the call ended
CallRecord(op, tuples, indices, out) ==
  [op |-> op, sess |-> 0, before |-> TABLE, tuples |-> tuples, indices |-> indices,
   fault |-> out.fault, ret |-> out.ret]

Insert(tuple) ==
  /\ last.op = "none"
  /\ LET out == InMemTable_insert(TABLE, tuple)
     IN  /\ TABLE' = out.table
         /\ last' = CallRecord("insert", tuple, <<>>, out)
  /\ UNCHANGED <<node, fdw_state, iters, scan_slot, returned, execute_calls, begin_calls,
                 source, parsetree>>

Update(tuples, indices) ==
  /\ last.op = "none"
  /\ LET out == InMemTable_update(TABLE, tuples, indices)
     IN  /\ TABLE' = out.table
         /\ last' = CallRecord("update", tuples, indices, out)
  /\ UNCHANGED <<node, fdw_state, iters, scan_slot, returned, execute_calls, begin_calls,
                 source, parsetree>>

Delete(tuples) ==
  /\ last.op = "none"
  /\ LET out == InMemTable_delete(TABLE, tuples)
     IN  /\ TABLE' = out.table
         /\ last' = CallRecord("delete", <<>>, tuples, out)
  /\ UNCHANGED <<node, fdw_state, iters, scan_slot, returned, execute_calls, begin_calls,
                 source, parsetree>>

NextInMem ==
  \/ \E tuple \in NewRowTuples : Insert(tuple)
  \/ \E tuples \in NewRowTuples, indices \in IdentityTuples : Update(tuples, indices)
  \/ \E tuples \in IdentityTuples : Delete(tuples)

SpecInMem == InitInMem /\ [][NextInMem]_vars

\* the columns the example knows
UserColumns == {"id", "name", "email"}

\* whether the Tuples name only known columns / carry no NULL
Recognised(tuples) == \A i \in 1..Len(tuples) : tuples[i][1] \in UserColumns
NoNulls(tuples) == \A i \in 1..Len(tuples) : IsSome(tuples[i][2])

\* the columns the Tuples give as NULL
NullColumns(tuples) == {tuples[i][1] : i \in {j \in 1..Len(tuples) : ~IsSome(tuples[j][2])}}

\* the text the Tuples give for a column: "" when they give none
RECURSIVE GivenText(_, _)
GivenText(tuples, column) ==
  IF tuples = <<>> THEN ""
  ELSE LET t == tuples[Len(tuples)]
       IN  IF t[1] = column /\ IsSome(t[2]) THEN Unwrap(t[2])[2]
           ELSE GivenText(SubSeq(tuples, 1, Len(tuples) - 1), column)

\* C15: an insert whose Tuples carry a NULL value for a column (and name
\* only known columns) succeeds, appends one row after the rows already
\* stored, which stay as they were, and the new row does not hold the empty
\* string in the NULL column.
C15_InsertStoresNull ==
  (/\ last.op = "insert"
   /\ Recognised(last.tuples)
   /\ NullColumns(last.tuples) # {}) =>
    /\ last.fault = "none"
    /\ Len(TABLE.rows) = Len(last.before.rows) + 1
    /\ SubSeq(TABLE.rows, 1, Len(last.before.rows)) = last.before.rows
    /\ \A c \in NullColumns(last.tuples) : TABLE.rows[Len(TABLE.rows)][c] # ""

\* the row an update leaves for a stored row it targets: a field takes the
\* new text when the new row gives one that is not empty
Merged(u, tuples) ==
  [id |-> IF GivenText(tuples, "id") # "" THEN GivenText(tuples, "id") ELSE u.id,
   name |-> IF GivenText(tuples, "name") # "" THEN GivenText(tuples, "name") ELSE u.name,
   email |-> IF GivenText(tuples, "email") # "" THEN GivenText(tuples, "email") ELSE u.email]

\* The identity an UPDATE / DELETE statement targets: the value of the
\* identity column that AddForeignUpdateTargets appended to the target list,
\* which is the last "id" column of the identity row.
TargetedId(indices) == GivenText(indices, "id")

\* C16: an update with identity value v for "id" (the id the targeted row
\* had before the update) returns, keeps the number of rows, leaves every
\* row whose id is not v as it was, and in every row whose id is v overwrites
\* the fields for which the new row gives a non-empty text and no others.
C16_UpdateOnlyTargetedRows ==
  (/\ last.op = "update"
   /\ last.indices # <<>>
   /\ Recognised(last.indices) /\ NoNulls(last.indices)
   /\ Recognised(last.tuples) /\ NoNulls(last.tuples)) =>
    /\ last.fault = "none"
    /\ Len(TABLE.rows) = Len(last.before.rows)
    /\ \A p \in 1..Len(last.before.rows) :
         TABLE.rows[p] = IF last.before.rows[p].id = TargetedId(last.indices)
                         THEN Merged(last.before.rows[p], last.tuples)
                         ELSE last.before.rows[p]

\* what the code does for an UPDATE that changes the id of row "2" to "9":
\* the identity row starts with the new id, no stored row has it, and the
\* targeted row stays as it was
C16_TargetedRowNotUpdated ==
  /\ last.op = "update"
  /\ last.indices = <<TextTuple("id", "9"), TextTuple("name", "N"), TextTuple("email", ""),
                      TextTuple("id", "2")>>
  /\ last.tuples = <<TextTuple("id", "9"), TextTuple("name", "N"), TextTuple("email", "")>>
  /\ last.before.rows = <<User("2", "B", "b@x")>>
  /\ last.fault = "none"
  /\ TABLE.rows = last.before.rows

\* C17: a delete with identity value v for "id" returns and leaves exactly
\* the rows whose id is not v, as they were and in their order; a delete with
\* an empty identity row leaves the store as it was.
C17_DeleteExactlyMatching ==
  last.op = "delete" =>
    /\ last.indices = <<>> => (last.fault = "none" /\ TABLE = last.before)
    /\ (/\ Len(last.indices) = 1
        /\ last.indices[1][1] = "id"
        /\ IsSome(last.indices[1][2])) =>
         /\ last.fault = "none"
         /\ TABLE.rows = SelectSeq(last.before.rows,
                                   LAMBDA r : r.id # TargetedId(last.indices))
         /\ ~TABLE.poisoned

\* id "1" deleted from a store of two rows with that id around a row with
\* another, or of one such row before a row with another id
C17_Witness ==
  /\ last.op = "delete"
  /\ last.indices = <<TextTuple("id", "1")>>
  /\ Len(last.before.rows) = MaxRows
  /\ last.before.rows[1].id = "1"
  /\ last.before.rows[Len(last.before.rows)] = User("2", "B", "b@x")
  /\ TABLE.rows = <<User("2", "B", "b@x")>>

\* C18: an insert, update or delete whose Tuples name a column the example
\* does not know, or carry a value it cannot convert (NULL), ends in a fatal
\* error and leaves the store's rows as they were.
C18_FailedCallCommitsNothing ==
  (/\ last.op \in {"insert", "update", "delete"}
   /\ \/ ~Recognised(last.tuples) \/ ~NoNulls(last.tuples)
      \/ ~Recognised(last.indices) \/ ~NoNulls(last.indices)) =>
    /\ last.fault # "none"
    /\ TABLE.rows = last.before.rows

\* what the code does with an identity row whose second column is unknown:
\* the delete returns and has removed the rows with the id
C18_UnknownColumnIgnored ==
  /\ last.op = "delete"
  /\ last.indices = <<TextTuple("id", "1"), TextTuple("phone", "5")>>
  /\ last.before.rows = <<User("1", "A", "a@x")>>
  /\ last.fault = "none"
  /\ TABLE.rows = <<>>

\* what the code does with a NULL identity value: the delete fails after it
\* has moved the rows out of the store
C18_RowsLostOnFailure ==
  /\ last.op = "delete"
  /\ last.indices = <<NullTuple("id")>>
  /\ last.before.rows # <<>>
  /\ last.fault = "unwrap"
  /\ TABLE.rows = <<>>

(* ===================== AddForeignUpdateTargets alone =================== *)

\* pg_sys::makeVar(varno, varattno, vartype, ...)
makeVar(varno, varattno, vartype) ==
  [varno |-> varno, varattno |-> varattno, vartype |-> vartype]

\* pg_sys::makeTargetEntry(expr, resno, resname, resjunk)
makeTargetEntry(expr, resno, resname, resjunk) ==
  [expr |-> expr, resno |-> resno, resname |-> resname, resjunk |-> resjunk]

\* whether the target list already selects the column
Selected(list, attr) == \E k \in 1..Len(list) : list[k].resname = attr.name

\* an add_foreign_update_targets that passes over identity columns the
\* target list already selects
RECURSIVE push_unselected(_, _, _, _, _)
push_unselected(i, tupdesc, keys, varno, list) ==
  IF i > Len(tupdesc) THEN list
  ELSE IF tupdesc[i].name \in Range(keys) /\ ~Selected(list, tupdesc[i])
  THEN push_unselected(i + 1, tupdesc, keys, varno,
         Append(list, makeTargetEntry(
           makeVar(varno, tupdesc[i].attnum, tupdesc[i].atttypid),
           Len(list) + 1, tupdesc[i].name, TRUE)))
  ELSE push_unselected(i + 1, tupdesc, keys, varno, list)

add_foreign_update_targets_unselected(query, tupdesc, indices) ==
  IF IsSome(indices)
  THEN [query EXCEPT !.targetList =
          push_unselected(1, tupdesc, Unwrap(indices), query.resultRelation, @)]
  ELSE query

\* an add_foreign_update_targets that numbers an appended entry after its
\* column instead of its place in the list
RECURSIVE push_numbered_by_column(_, _, _, _, _)
push_numbered_by_column(i, tupdesc, keys, varno, list) ==
  IF i > Len(tupdesc) THEN list
  ELSE IF tupdesc[i].name \in Range(keys)
  THEN push_numbered_by_column(i + 1, tupdesc, keys, varno,
         Append(list, makeTargetEntry(
           makeVar(varno, tupdesc[i].attnum, tupdesc[i].atttypid),
           tupdesc[i].attnum, tupdesc[i].name, TRUE)))
  ELSE push_numbered_by_column(i + 1, tupdesc, keys, varno, list)

add_foreign_update_targets_numbered_by_column(query, tupdesc, indices) ==
  IF IsSome(indices)
  THEN [query EXCEPT !.targetList =
          push_numbered_by_column(1, tupdesc, Unwrap(indices), query.resultRelation, @)]
  ELSE query

\* tupdesc.iter().filter(keys.contains(name)).for_each(push a junk entry)
RECURSIVE push_targets(_, _, _, _, _)
push_targets(i, tupdesc, keys, varno, list) ==
  IF i > Len(tupdesc) THEN list
  ELSE IF tupdesc[i].name \in Range(keys)
  THEN push_targets(i + 1, tupdesc, keys, varno,
         Append(list, makeTargetEntry(
           makeVar(varno, tupdesc[i].attnum, tupdesc[i].atttypid),
           Len(list) + 1, tupdesc[i].name, TRUE)))
  ELSE push_targets(i + 1, tupdesc, keys, varno, list)

\* FdwState::add_foreign_update_targets; indices is what T::indices(&opts)
\* answers
add_foreign_update_targets(query, tupdesc, indices) ==
  IF IsSome(indices)
  THEN [query EXCEPT !.targetList =
          push_targets(1, tupdesc, Unwrap(indices), query.resultRelation, @)]
  ELSE query

\* the relation of the statement: columns of three different types
TargetRelDesc == <<Attr("id", 1, "int4"), Attr("name", 2, "text"), Attr("email", 3, "bool")>>

\* a target list entry of the statement that selects a column of the relation
SelectEntry(attr, resno) ==
  makeTargetEntry(makeVar(1, attr.attnum, attr.atttypid), resno, attr.name, FALSE)

\* the statement's target lists before the call
TargetLists ==
  {[k \in 1..Len(cols) |-> SelectEntry(TargetRelDesc[cols[k]], k)] :
     cols \in SeqsUpTo(1..Len(TargetRelDesc), MaxTargets)}

\* what T::indices may answer: None, or names of columns and other names
IndexAnswers ==
  {None} \cup {Some(ks) : ks \in SeqsUpTo(Range([i \in 1..Len(TargetRelDesc) |->
                                      TargetRelDesc[i].name]) \cup {"ctid"}, 2)}

InitTargets ==
  /\ node = [s \in Sessions |-> "unused"]
  /\ fdw_state = [s \in Sessions |-> NoFdwState]
  /\ iters = <<>>
  /\ scan_slot = [s \in Sessions |-> EmptySlot(HostSlotOps, UsersDesc)]
  /\ returned = [s \in Sessions |-> <<>>]
  /\ execute_calls = [s \in Sessions |-> 0]
  /\ begin_calls = [s \in Sessions |-> 0]
  /\ source = <<>>
  /\ TABLE = EmptyTable
  /\ parsetree \in {[targetList |-> tl, resultRelation |-> 1] : tl \in TargetLists}
  /\ last = [op |-> "none", sess |-> 0]

\* the rewriter calls AddForeignUpdateTargets once for the statement
AddForeignUpdateTargets(indices) ==
  /\ last.op = "none"
  /\ parsetree' = add_foreign_update_targets(parsetree, TargetRelDesc, indices)
  /\ last' = [op |-> "AddForeignUpdateTargets", sess |-> 0, indices |-> indices,
              before |-> parsetree.targetList]
  /\ UNCHANGED <<node, fdw_state, iters, scan_slot, returned, execute_calls, begin_calls,
                 source, TABLE>>

NextTargets == \E indices \in IndexAnswers : AddForeignUpdateTargets(indices)

SpecTargets == InitTargets /\ [][NextTargets]_vars

\* the entries the call appended
Appended == SubSeq(parsetree.targetList, Len(last.before) + 1, Len(parsetree.targetList))

\* the appended entries that reference this column with its own attribute
\* number and declared type, under its name
EntriesFor(attr) ==
  {k \in 1..Len(Appended) :
     /\ Appended[k].resname = attr.name
     /\ Appended[k].expr = makeVar(parsetree.resultRelation, attr.attnum, attr.atttypid)}

\* C8 as claimed: one entry is appended for each column named by indices that
\* the target list does not select yet, none for any other column.
C8_OnePerUnselectedIdentityColumn ==
  (last.op = "AddForeignUpdateTargets" /\ IsSome(last.indices)) =>
    /\ \A i \in 1..Len(TargetRelDesc) :
         Cardinality(EntriesFor(TargetRelDesc[i])) =
           (IF /\ TargetRelDesc[i].name \in Range(Unwrap(last.indices))
               /\ ~Selected(last.before, TargetRelDesc[i])
            THEN 1 ELSE 0)
    /\ \A k \in 1..Len(Appended) : \E i \in 1..Len(TargetRelDesc) : k \in EntriesFor(TargetRelDesc[i])

\* C8 as the code has it: one entry is appended for each column named by
\* indices, whether or not the target list selects it already, none for any
\* other column; each appended entry references its column's attribute number
\* and declared type.
C8_OnePerIdentityColumn ==
  (last.op = "AddForeignUpdateTargets" /\ IsSome(last.indices)) =>
    /\ \A i \in 1..Len(TargetRelDesc) :
         Cardinality(EntriesFor(TargetRelDesc[i])) =
           (IF TargetRelDesc[i].name \in Range(Unwrap(last.indices)) THEN 1 ELSE 0)
    /\ \A k \in 1..Len(Appended) : \E i \in 1..Len(TargetRelDesc) : k \in EntriesFor(TargetRelDesc[i])

\* indices names id and email, the statement selects id only: an entry for
\* each of the two has been appended
C8_Witness ==
  /\ last.op = "AddForeignUpdateTargets"
  /\ last.indices = Some(<<"id", "email">>)
  /\ last.before = <<SelectEntry(TargetRelDesc[1], 1)>>
  /\ Len(Appended) = 2
  /\ Appended[1].resname = "id"
  /\ Appended[2].resname = "email"

\* the columns of the relation that indices names, in the order the table
\* declares them
IdentityColumns(indices) ==
  IF IsSome(indices)
  THEN SelectSeq(TargetRelDesc, LAMBDA attr : attr.name \in Range(Unwrap(indices)))
  ELSE <<>>

\* C21: AddForeignUpdateTargets keeps every entry the target list had, in
\* place and unchanged, and appends after them one entry per column that
\* indices names, in table declaration order; the j-th appended entry has
\* result number (length of the list before the call) + j and is a junk
\* entry; when indices answers None or names no column of the table the list
\* is as it was.
C21_TargetListWellFormed ==
  last.op = "AddForeignUpdateTargets" =>
    LET cols == IdentityColumns(last.indices)
        n == Len(last.before)
    IN  /\ Len(parsetree.targetList) = n + Len(cols)
        /\ SubSeq(parsetree.targetList, 1, n) = last.before
        /\ \A j \in 1..Len(cols) :
             /\ parsetree.targetList[n + j].resname = cols[j].name
             /\ parsetree.targetList[n + j].expr.varattno = cols[j].attnum
             /\ parsetree.targetList[n + j].resno = n + j
             /\ parsetree.targetList[n + j].resjunk
        /\ \A j, k \in 1..Len(parsetree.targetList) :
             (j > n /\ k > n /\ j # k) =>
               parsetree.targetList[j].resno # parsetree.targetList[k].resno
        /\ cols = <<>> => parsetree.targetList = last.before

\* indices names email before id, the statement's list has two entries:
\* id was appended as entry 3 and email as entry 4
C21_Witness ==
  /\ last.op = "AddForeignUpdateTargets"
  /\ last.indices = Some(<<"email", "id">>)
  /\ Len(last.before) = 2
  /\ Len(parsetree.targetList) = 4
  /\ parsetree.targetList[3].resname = "id" /\ parsetree.targetList[3].resno = 3
  /\ parsetree.targetList[4].resname = "email" /\ parsetree.targetList[4].resno = 4

\* indices answers None, or names only a column the table does not have:
\* the list is as it was
C21_WitnessUnchanged ==
  /\ last.op = "AddForeignUpdateTargets"
  /\ last.indices \in {None, Some(<<"ctid">>)}
  /\ last.before # <<>>
  /\ parsetree.targetList = last.before

\* the executor stops fetching from a scan that has returned the empty slot
ScanDone(s) == returned[s] # <<>> /\ returned[s][Len(returned[s])].tts_empty

(* ============ the in-memory example behind the adapter: scans ========== *)

\* InMemTable::begin: the unit struct InMemTable {}; all data is in the
\* static TABLE
InMemTable_begin == [table |-> "TABLE"]

\* InMemTable::execute: TABLE.read().unwrap(), every row cloned into a
\* Vec<String>, the rows moved into a vec::IntoIter.  fault is "poisoned"
\* when the lock is poisoned and the unwrap panics.
InMemTable_execute(table, desc) ==
  IF table.poisoned THEN [fault |-> "poisoned", rows |-> <<>>]
  ELSE [fault |-> "none",
        rows |-> [p \in 1..Len(table.rows) |->
                    Some(<<Item(table.rows[p].id), Item(table.rows[p].name),
                           Item(table.rows[p].email)>>)]]

\* the capability as the adapter's generic code sees it during one call:
\* self together with the static its execute would read
InMemTable_self(self, table) == [rows |-> InMemTable_execute(table, UsersDesc).rows]

\* the stores a backend may hold when the first node is begun
SessionTables ==
  {[rows |-> rows, poisoned |-> FALSE] :
     rows \in {<<>>, <<User("1", "A", "a@x"), User("2", "B", "b@x")>>}}

\* rows inserted while scans are open: a full row, and a row with a NULL
SessionInserts ==
  {<<TextTuple("id", "3"), TextTuple("name", "N"), TextTuple("email", "")>>,
   <<TextTuple("id", "3"), NullTuple("name")>>}

\* the two rows of an UPDATE users SET name = ... WHERE id = ... as the host
\* hands them over: the new row, and the plan slot's row (the new values of
\* all columns, then the junk identity column)
UpdateOf(id, name, email) ==
  <<(<<TextTuple("id", id), name, TextTuple("email", email)>>),
    (<<TextTuple("id", id), name, TextTuple("email", email), TextTuple("id", id)>>)>>

\* updates made while scans are open, as (new row, identity row): a rename
\* of the second row, and a new row with a NULL
SessionUpdates ==
  {UpdateOf("2", TextTuple("name", "Z"), "b@x"),
   UpdateOf("1", NullTuple("name"), "a@x")}

\* deletes made while scans are open: of the first row, of the second, and
\* one whose identity is NULL
SessionDeletes == {<<TextTuple("id", "1")>>, <<TextTuple("id", "2")>>, <<NullTuple("id")>>}

InitInMemScan ==
  /\ node = [s \in Sessions |-> "unused"]
  /\ fdw_state = [s \in Sessions |-> NoFdwState]
  /\ iters = <<>>
  /\ scan_slot = [s \in Sessions |-> EmptySlot(HostSlotOps, UsersDesc)]
  /\ returned = [s \in Sessions |-> <<>>]
  /\ execute_calls = [s \in Sessions |-> 0]
  /\ begin_calls = [s \in Sessions |-> 0]
  /\ parsetree = NoQuery
  /\ source = <<>>
  /\ TABLE \in SessionTables
  /\ last = [op |-> "none", sess |-> 0]

\* FdwState::<InMemTable>::begin_foreign_scan
BeginInMemScan(s) ==
  /\ ~Aborted
  /\ IsNextNode(s)
  /\ node' = [node EXCEPT ![s] = "scan"]
  /\ fdw_state' = [fdw_state EXCEPT ![s] = begin_foreign_scan(InMemTable_begin)]
  /\ begin_calls' = [begin_calls EXCEPT ![s] = @ + 1]
  /\ last' = [op |-> "BeginForeignScan", sess |-> s]
  /\ UNCHANGED <<iters, scan_slot, returned, execute_calls, source, parsetree, TABLE>>

\* what the host observes of one Iterate: whether it failed, whether it ran
\* execute, and the call that came just before it with that call's outcome
IterateRecord(s, failed, executed) ==
  [op |-> "IterateForeignScan", sess |-> s, failed |-> failed, executed |-> executed,
   after |-> <<last.op, IF "fault" \in DOMAIN last THEN last.fault ELSE "none">>]

\* an Iterate that asks the capability for its rows on every call
IterateInMemScan_rereading(s) ==
  /\ ~Aborted
  /\ node[s] = "scan"
  /\ Len(returned[s]) < MaxIter
  /\ ~TABLE.poisoned
  /\ LET st == FdwState(InMemTable_self(fdw_state[s].state, TABLE), NULL)
         r == iterate_foreign_scan(st, scan_slot[s], UsersDesc, iters)
     IN  /\ fdw_state' = [fdw_state EXCEPT ![s].itr = r.fdw_state.itr]
         /\ iters' = r.heap
         /\ scan_slot' = [scan_slot EXCEPT ![s] = r.slot]
         /\ returned' = [returned EXCEPT ![s] = Append(@, r.slot)]
         /\ execute_calls' = [execute_calls EXCEPT ![s] = @ + 1]
         /\ last' = IterateRecord(s, FALSE, r.executed)
  /\ UNCHANGED <<node, begin_calls, source, parsetree, TABLE>>

\* FdwState::<InMemTable>::iterate_foreign_scan.  The first call of a scan
\* clears the scan slot and enters execute, which takes the read lock; on a
\* poisoned lock execute panics, no slot is handed to the host and the
\* process aborts.  (The call that poisons the lock takes the process down
\* itself, so a backend that is still there never has a poisoned lock.)
IterateInMemScan(s) ==
  /\ ~Aborted
  /\ node[s] = "scan"
  /\ Len(returned[s]) < MaxIter
  /\ IF fdw_state[s].itr = NULL /\ InMemTable_execute(TABLE, UsersDesc).fault # "none"
     THEN /\ scan_slot' = [scan_slot EXCEPT ![s] = exec_clear_tuple(@)]
          /\ execute_calls' = [execute_calls EXCEPT ![s] = @ + 1]
          /\ last' = IterateRecord(s, TRUE, TRUE)
          /\ UNCHANGED <<fdw_state, iters, returned>>
     ELSE LET st == FdwState(InMemTable_self(fdw_state[s].state, TABLE), fdw_state[s].itr)
              r == iterate_foreign_scan(st, scan_slot[s], UsersDesc, iters)
          IN  /\ fdw_state' = [fdw_state EXCEPT ![s].itr = r.fdw_state.itr]
              /\ iters' = r.heap
              /\ scan_slot' = [scan_slot EXCEPT ![s] = r.slot]
              /\ returned' = [returned EXCEPT ![s] = Append(@, r.slot)]
              /\ execute_calls' = [execute_calls EXCEPT ![s] = @ + (IF r.executed THEN 1 ELSE 0)]
              /\ last' = IterateRecord(s, FALSE, r.executed)
  /\ UNCHANGED <<node, begin_calls, source, parsetree, TABLE>>

\* what the host observes of a modification: whether the call came back
SessionRecord(op, out) == [op |-> op, sess |-> 0, fault |-> out.fault]

\* a modification of another session: exec_foreign_insert reaches
\* InMemTable::insert; a call that fails there takes the process down (Aborted)
SessionInsert(tuple) ==
  /\ ~Aborted
  /\ Len(TABLE.rows) < MaxRows
  /\ LET out == InMemTable_insert(TABLE, tuple)
     IN  /\ TABLE' = out.table
         /\ last' = SessionRecord("insert", out)
  /\ UNCHANGED <<node, fdw_state, iters, scan_slot, returned, execute_calls, begin_calls,
                 source, parsetree>>

\* a modification of another session: exec_foreign_update reaches
\* InMemTable::update; a call that fails there takes the process down (Aborted)
SessionUpdate(tuples, indices) ==
  /\ ~Aborted
  /\ LET out == InMemTable_update(TABLE, tuples, indices)
     IN  /\ TABLE' = out.table
         /\ last' = SessionRecord("update", out)
  /\ UNCHANGED <<node, fdw_state, iters, scan_slot, returned, execute_calls, begin_calls,
                 source, parsetree>>

\* a modification of another session: exec_foreign_delete reaches
\* InMemTable::delete; a call that fails there takes the process down (Aborted)
SessionDelete(tuples) ==
  /\ ~Aborted
  /\ LET out == InMemTable_delete(TABLE, tuples)
     IN  /\ TABLE' = out.table
         /\ last' = SessionRecord("delete", out)
  /\ UNCHANGED <<node, fdw_state, iters, scan_slot, returned, execute_calls, begin_calls,
                 source, parsetree>>

NextInMemScan ==
  \/ \E s \in 1..MaxScans : BeginInMemScan(s)
  \/ \E s \in 1..MaxScans : ~ScanDone(s) /\ IterateInMemScan(s)
  \/ \E s \in 1..MaxScans : EndForeignScan(s)
  \/ \E tuple \in SessionInserts : SessionInsert(tuple)
  \/ \E u \in SessionUpdates : SessionUpdate(u[1], u[2])
  \/ \E tuples \in SessionDeletes : SessionDelete(tuples)

SpecInMemScan == InitInMemScan /\ [][NextInMemScan]_vars

\* the slots a store's rows fill, in the store's order
StoreSlots(rows) ==
  [p \in 1..Len(rows) |->
     SlotFilledWith(<<Item(rows[p].id), Item(rows[p].name), Item(rows[p].email)>>)]

\* the rows a scan has handed out
Yielded(s) == SelectSeq(returned[s], LAMBDA sl : ~sl.tts_empty)

\* what a scan that ran execute returns in all: the rows handed out so far,
\* then the rows its row iterator still holds
ScanResult(s) ==
  Yielded(s) \o [k \in 1..Len(iters[fdw_state[s].itr]) |->
                   SlotFilledWith(Unwrap(iters[fdw_state[s].itr][k]))]

Executed(s) == fdw_state[s] # NoFdwState /\ fdw_state[s].itr # NULL

\* C22: a scan of the in-memory example holds nothing of the store between
\* BeginForeignScan and its first Iterate; the Iterate that runs execute
\* fixes the scan's result as the store's rows at that moment, in the
\* store's order; from then on no step (no insert, update or delete, no call
\* of another scan) changes the rows, their order or their number, and the
\* rows are handed out in that order.
C22_SnapshotAtFirstIterate ==
  /\ [](\A s \in Sessions :
          node[s] = "scan" /\ ~Executed(s) =>
            fdw_state[s].state = InMemTable_begin /\ returned[s] = <<>>)
  /\ [][\A s \in Sessions :
          /\ (~Executed(s) /\ Executed(s)') => ScanResult(s)' = StoreSlots(TABLE.rows)
          /\ Executed(s) => Executed(s)' /\ ScanResult(s)' = ScanResult(s)
          /\ Executed(s) /\ returned'[s] # returned[s] =>
                /\ Len(returned'[s]) = Len(returned[s]) + 1
                /\ LET k == Len(returned'[s])
                   IN  IF k <= Len(ScanResult(s)) THEN returned'[s][k] = ScanResult(s)[k]
                       ELSE returned'[s][k].tts_empty]_vars

\* a row inserted after the scan began, just before its first Iterate, is the
\* row that Iterate returns
C22_WitnessSeesInsertAfterBegin ==
  \E s \in Sessions :
    /\ last.op = "IterateForeignScan" /\ last.sess = s
    /\ last.executed /\ last.after = <<"insert", "none">>
    /\ TABLE.rows = <<User("3", "N", "")>>
    /\ returned[s] = StoreSlots(TABLE.rows)

\* the second row, deleted after the scan's first Iterate and before that
\* row was handed out, is still returned by the Iterate that follows the
\* delete
C22_WitnessKeepsDeletedRow ==
  \E s \in Sessions :
    /\ last.op = "IterateForeignScan" /\ last.sess = s
    /\ ~last.executed /\ last.after = <<"delete", "none">>
    /\ TABLE.rows = <<User("1", "A", "a@x")>>
    /\ returned[s] = StoreSlots(<<User("1", "A", "a@x"), User("2", "B", "b@x")>>)

\* the second row, renamed after the scan's first Iterate and before that
\* row was handed out, is returned with the name it had at the first Iterate
C22_WitnessKeepsOldName ==
  \E s \in Sessions :
    /\ last.op = "IterateForeignScan" /\ last.sess = s
    /\ ~last.executed /\ last.after = <<"update", "none">>
    /\ TABLE.rows = <<User("1", "A", "a@x"), User("2", "Z", "b@x")>>
    /\ returned[s] = StoreSlots(<<User("1", "A", "a@x"), User("2", "B", "b@x")>>)

\* a row inserted after the scan's first Iterate (into the place a delete
\* made after that Iterate had freed) is not returned: the scan hands out
\* the two rows it started with, the deleted one included, and then ends
C22_WitnessIgnoresLaterInsert ==
  \E s \in Sessions :
    /\ last.op = "IterateForeignScan" /\ last.sess = s
    /\ TABLE.rows = <<User("2", "B", "b@x"), User("3", "N", "")>>
    /\ Len(returned[s]) = 3 /\ returned[s][3].tts_empty
    /\ SubSeq(returned[s], 1, 2) = StoreSlots(<<User("1", "A", "a@x"), User("2", "B", "b@x")>>)
    /\ execute_calls[s] = 1

\* C23 (as the specification states it): after a modification that ends in
\* a fatal error the backend is still there with its store, and the store's
\* lock is not poisoned, so that later scans and modifications of the same
\* process can use it.
C23_StoreStaysUsable ==
  (last.op \in {"insert", "update", "delete"} /\ last.fault # "none") =>
    (~Aborted /\ ~TABLE.poisoned)

\* an update with a NULL in its new row fails while an open scan still has
\* rows to hand out: the lock was held at the panic, and the process, its
\* store and the scan are gone
C23_BackendGoneAfterFailedUpdate ==
  /\ last.op = "update" /\ last.fault = "unwrap"
  /\ TABLE.poisoned
  /\ Aborted
  /\ \E s \in Sessions : node[s] = "scan" /\ Executed(s) /\ iters[fdw_state[s].itr] # <<>>

(* ============== every registered callback, planning included ========= *)

\* FdwState::get_foreign_rel_size: sets baserel.rows, which is planner state
GetForeignRelSize ==
  /\ ~Aborted
  /\ last' = [op |-> "GetForeignRelSize", sess |-> 0]
  /\ UNCHANGED <<node, fdw_state, iters, scan_slot, returned, execute_calls, begin_calls,
                 source, parsetree, TABLE>>

\* FdwState::get_foreign_paths: adds one foreign scan path to baserel
GetForeignPaths ==
  /\ ~Aborted
  /\ last' = [op |-> "GetForeignPaths", sess |-> 0]
  /\ UNCHANGED <<node, fdw_state, iters, scan_slot, returned, execute_calls, begin_calls,
                 source, parsetree, TABLE>>

\* FdwState::get_foreign_plan: makes the ForeignScan plan node
GetForeignPlan ==
  /\ ~Aborted
  /\ last' = [op |-> "GetForeignPlan", sess |-> 0]
  /\ UNCHANGED <<node, fdw_state, iters, scan_slot, returned, execute_calls, begin_calls,
                 source, parsetree, TABLE>>

\* FdwState::add_foreign_update_targets for a statement on the users table,
\* with the identity columns the example's indices names
PlanUpdateTargets ==
  /\ ~Aborted
  /\ parsetree.targetList = <<>>
  /\ parsetree' = add_foreign_update_targets(parsetree, UsersDesc, Some(<<"id">>))
  /\ last' = [op |-> "AddForeignUpdateTargets", sess |-> 0]
  /\ UNCHANGED <<node, fdw_state, iters, scan_slot, returned, execute_calls, begin_calls,
                 source, TABLE>>

\* the data source the table's options name gets its first row, by means
\* outside the adapter; a capability begun afterwards sees it
SourceGrows ==
  /\ source = <<>>
  /\ source' = FusedScript(Len(source) + 1)
  /\ last' = [op |-> "none", sess |-> 0]
  /\ UNCHANGED <<node, fdw_state, iters, scan_slot, returned, execute_calls, begin_calls,
                 parsetree, TABLE>>

InitLifecycle ==
  /\ InitHost
  /\ source = FusedScript(0)
  /\ last = [op |-> "none", sess |-> 0]

NextLifecycle ==
  \/ GetForeignRelSize
  \/ GetForeignPaths
  \/ GetForeignPlan
  \/ PlanUpdateTargets
  \/ SourceGrows
  \/ \E s \in Sessions : BeginForeignScan(s)
  \/ \E s \in Sessions : ~ScanDone(s) /\ IterateForeignScan(s)
  \/ \E s \in Sessions : ReScanForeignScan(s)
  \/ \E s \in Sessions : EndForeignScan(s)
  \/ \E s \in Sessions : BeginForeignModify(s)
  \/ \E s \in Sessions, slot \in FreshRowSlots, plan_slot \in FreshPlanSlots :
       ExecForeignInsert(s, slot, plan_slot, None)
  \/ \E s \in Sessions, slot \in FreshRowSlots, plan_slot \in FreshPlanSlots :
       ExecForeignUpdate(s, slot, plan_slot, None)
  \/ \E s \in Sessions, slot \in FreshRowSlots, plan_slot \in FreshPlanSlots :
       ExecForeignDelete(s, slot, plan_slot, None)
  \/ \E s \in Sessions : EndForeignModify(s)

SpecLifecycle == InitLifecycle /\ [][NextLifecycle]_vars

====
